---------------------------- MODULE Spec2Model ----------------------------
(***************************************************************************)
(* A model of package chain (github.com/gford1000-go/chain): a pipeline    *)
(* of funcs chained with New / Then / Finally, with context checking,      *)
(* panic containment and retries with exponential backoff.                 *)
(*                                                                         *)
(* One caller drives one chain.  A call of Then or Finally is split at the *)
(* points where the func runs and where the chain sleeps, so that an       *)
(* asynchronous cancel of the context can land anywhere in between.        *)
(***************************************************************************)
EXTENDS Integers, Sequences, FiniteSets, TLC

VARIABLES
    ctxDone,    \* the context's Done channel is closed
    mode,       \* "chain": the caller chains the calls itself; "process": ProcessWithRetries does
    rawRetry,   \* the Retry value the caller passed to the constructor
    rawArgs,    \* the args the caller passed to the constructor
    fs,         \* Process: the slice of Funcs
    fn,         \* Process: the FinalFunc
    c,          \* the caller's current Chain[T] value
    pc,         \* where the caller is: idle, attempt, running, sleep, done
    cur,        \* the call in progress: [op, f]
    iter,       \* thenWrap/finallyWrap: iterations of the for-range loop completed
    attempt,    \* thenWrap/finallyWrap: the local variable attempt
    inArgs,     \* the args passed to the func at its latest invocation
    calls,      \* invocations of the func made by the current (or latest) call
    sleeps,     \* the attempt indices c.sleep was entered with, in the current (or latest) call
    steps,      \* one entry per call that invoked its func: [op, f, args]
    ops,        \* every Then/Finally call made so far: [op, f]
    res,        \* what Finally returned: [val, err]
    lastOut,    \* what the latest invocation did: [kind, err], and call, the number of its call
    faulted,    \* some invocation returned an error or panicked
    escaped,    \* a panic has left Then/Finally and reached the caller
    slept,      \* the duration of the sleep just made, until the next attempt begins
    callerFwd,  \* the contents of the caller's own Forward slice, which the caller may change
    doneAtEnter, \* the context was done when the latest call began
    cancelPc,   \* where the caller was when the context became done, if that was inside a call
    receiver    \* the caller's variable that held the receiver of the latest Then, after that call

vars == <<ctxDone, mode, rawRetry, rawArgs, fs, fn, c, pc, cur, iter, attempt,
          inArgs, calls, sleeps, steps, ops, res, lastOut, faulted, escaped,
          slept, callerFwd, doneAtEnter, cancelPc, receiver>>

---------------------------------------------------------------------------
(* Bounds of the model.                                                    *)

MaxSteps == 2          \* Then calls per chain, and the length of Process's fs
MaxRawRetries == 9     \* the caller's NumRetries ranges over -1..MaxRawRetries
ValMod == 5            \* the ints carried in args are taken modulo ValMod

---------------------------------------------------------------------------
(* Values of type any, and args bundles ([]any).  A value is an int or a   *)
(* slice of ints; both are records of one shape.                           *)

IntVal(n) == [isList |-> FALSE, int |-> n, list |-> <<>>]
ListVal(s) == [isList |-> TRUE, int |-> 0, list |-> s]

\* The ints of an args bundle, each as a value: what a variadic call args... passes.
RECURSIVE MapInts(_, _)
MapInts(s, n) == IF n = 0 THEN <<>> ELSE Append(MapInts(s, n - 1), IntVal(s[n]))
Spread(s) == MapInts(s, Len(s))

\* The whole slice as one value: what passing args without ... produces.
Nested(s) == <<ListVal(s)>>

---------------------------------------------------------------------------
(* Errors.  An error is its chain of wrapped layers, outermost first; nil  *)
(* is the empty chain.  errors.Is walks the chain.                         *)

NoErr == <<>>
Sentinel(name) == <<[kind |-> "sentinel", tag |-> name]>>

ErrContextDone == Sentinel("ErrContextDone")
ErrNilThenFunc == Sentinel("ErrNilThenFunc")
ErrUnhandledPanic == Sentinel("ErrUnhandledPanic")
ErrExceededRetries == Sentinel("ErrExceededRetries")
ErrNilFinalFunc == Sentinel("ErrNilFinalFunc")

\* fmt.Errorf("error in %s: %w", funcName, err)
ErrorIn(funcName, err) == <<[kind |-> "error in", tag |-> funcName]>> \o err
\* fmt.Errorf("prior to call to %s, %w", funcName, ErrContextDone)
PriorTo(funcName) == <<[kind |-> "prior to call to", tag |-> funcName]>> \o ErrContextDone
\* fmt.Errorf("%v: %w", r, ErrUnhandledPanic)
PanicErr(r) == <<[kind |-> "panic value", tag |-> r]>> \o ErrUnhandledPanic

\* errors.Is(err, target): err, or an error it wraps, is target
ErrorsIs(err, target) == \E i \in 1..Len(err) : SubSeq(err, i, Len(err)) = target

\* Error(): the message, as the sequence of its pieces.
SentinelText(name) ==
    CASE name = "ErrContextDone" -> "context is Done()"
      [] name = "ErrNilThenFunc" -> "func provided to Then cannot be nil"
      [] name = "ErrUnhandledPanic" -> "unhandled panic"
      [] name = "ErrExceededRetries" -> "exceeded retry count"
      [] name = "ErrNilFinalFunc" -> "func provided to Finally cannot be nil"
      [] OTHER -> name
LayerText(l) ==
    CASE l.kind = "sentinel" -> <<SentinelText(l.tag)>>
      [] l.kind = "error in" -> <<"error in ", l.tag, ": ">>
      [] l.kind = "prior to call to" -> <<"prior to call to ", l.tag, ", ">>
      [] l.kind = "panic value" -> <<l.tag, ": ">>
      [] l.kind = "wrap" -> <<l.tag, ": ">>
RECURSIVE ErrorText(_)
ErrorText(err) == IF err = <<>> THEN <<>> ELSE LayerText(Head(err)) \o ErrorText(Tail(err))

\* The errors the caller's funcs return: two sentinels, and one wrapping the first.
E1 == Sentinel("E1")
E2 == Sentinel("E2")
W1 == <<[kind |-> "wrap", tag |-> "w1"]>> \o E1
UserErrs == {E1, E2, W1}


---------------------------------------------------------------------------
(* Durations.  A time.Duration is an int64 count of nanoseconds.  BaseWait *)
(* fits a 32-bit integer of TLC; a backoff (up to 256 s) is kept as two    *)
(* limbs, hi * Second + lo, so that no product overflows.                  *)

Second == 1000000000
Millisecond == 1000000
MaxNumRetries == 8
DefaultBaseWait == 10 * Millisecond
MaxBaseWait == Second

Dur(n) == [hi |-> n \div Second, lo |-> n % Second]
DurZero == Dur(0)
Double(d) == [hi |-> 2 * d.hi + (2 * d.lo) \div Second, lo |-> (2 * d.lo) % Second]
RECURSIVE Shl(_, _)
Shl(d, k) == IF k = 0 THEN d ELSE Double(Shl(d, k - 1))
Half(d) == [hi |-> d.hi \div 2, lo |-> ((d.hi % 2) * Second + d.lo) \div 2]
DurAdd(a, b) == [hi |-> a.hi + b.hi + (a.lo + b.lo) \div Second, lo |-> (a.lo + b.lo) % Second]
DurLess(a, b) == a.hi < b.hi \/ (a.hi = b.hi /\ a.lo < b.lo)
DurLeq(a, b) == a = b \/ DurLess(a, b)

---------------------------------------------------------------------------
(* Retry, and its normalisation.  A slice is a record: nil or not, and its *)
(* elements.                                                               *)

NilSlice == [isNil |-> TRUE, elems |-> <<>>]
Slice(s) == [isNil |-> FALSE, elems |-> s]

\* Retry{}: the zero value
ZeroRetry == [NumRetries |-> 0, BaseWait |-> 0, Forward |-> NilSlice]

\* Variant: NumRetries above eight kept as it is
ensureValidNoMaxRetries(r) ==
    [NumRetries |-> IF r.NumRetries < 0 THEN 0 ELSE r.NumRetries,
     BaseWait |-> IF r.BaseWait <= 0 THEN DefaultBaseWait
                  ELSE IF r.BaseWait > MaxBaseWait THEN MaxBaseWait ELSE r.BaseWait,
     Forward |-> Slice(r.Forward.elems)]

\* Variant: values above one second kept as they are
ensureValidNoMaxWait(r) ==
    [NumRetries |-> IF r.NumRetries < 0 THEN 0
                    ELSE IF r.NumRetries > MaxNumRetries THEN MaxNumRetries
                    ELSE r.NumRetries,
     BaseWait |-> IF r.BaseWait <= 0 THEN DefaultBaseWait ELSE r.BaseWait,
     Forward |-> Slice(r.Forward.elems)]

ensureValid(r) ==
    [NumRetries |-> IF r.NumRetries < 0 THEN 0
                    ELSE IF r.NumRetries > MaxNumRetries THEN MaxNumRetries
                    ELSE r.NumRetries,
     BaseWait |-> IF r.BaseWait <= 0 THEN DefaultBaseWait
                  ELSE IF r.BaseWait > MaxBaseWait THEN MaxBaseWait ELSE r.BaseWait,
     Forward |-> Slice(r.Forward.elems)]

\* out.Forward is a new slice ([]error{}, then append): a later write of the
\* caller to its own slice, which then holds written, leaves fwd as it was
ForwardAfterCallerWrite(fwd, written) == fwd

---------------------------------------------------------------------------
(* Chain[T], with T = int.                                                 *)

Zero == 0                \* T's zero value
NilCtx == "nil"
Ctx == "ctx"             \* the one context of the model; ctxDone is its state

\* Chain[T]{err: e}: every other field keeps its zero value
ErrChain(e) == [ctx |-> NilCtx, t |-> Zero, retry |-> ZeroRetry, args |-> <<>>, err |-> e]

NewWithRetries(ctx, retry, args) ==
    [ctx |-> ctx, t |-> Zero, retry |-> ensureValid(retry), args |-> args, err |-> NoErr]
New(ctx, args) == NewWithRetries(ctx, ZeroRetry, args)

---------------------------------------------------------------------------
(* The caller's funcs.  A func is known by its name; what it does on one   *)
(* invocation (return a result, return an error, panic) is the caller's    *)
(* business and is chosen freely at each invocation.  When it returns a    *)
(* result, the result is a fixed function of the args it was given.        *)

NilFunc == "nil"
Funcs == {"f1", "f2"}
FinalFuncs == {"g1"}

runtimeFuncName(f) ==
    CASE f = "f1" -> "main.f1"
      [] f = "f2" -> "main.f2"
      [] f = "g1" -> "main.g1"
      [] OTHER -> ""

bump(f, v) ==
    IF v.isList THEN v
    ELSE IF f = "f1" THEN IntVal((v.int + 1) % ValMod) ELSE IntVal((2 * v.int) % ValMod)
\* f1 adds one to every int of its args, f2 doubles it
Apply(f, args) == [i \in 1..Len(args) |-> bump(f, args[i])]

RECURSIVE SumInts(_)
SumInts(args) ==
    IF args = <<>> THEN 0
    ELSE (IF Head(args).isList THEN Len(Head(args).list) ELSE Head(args).int) + SumInts(Tail(args))
\* g1 returns a non-zero int computed from all of its args
ApplyFinal(g, args) == 1 + SumInts(args) + 10 * Len(args)

\* What one invocation does.
OkOut == [kind |-> "ok", err |-> NoErr]
PanicOut == [kind |-> "panic", err |-> NoErr]
ErrOut(e) == [kind |-> "err", err |-> e]
Outcomes == {OkOut, PanicOut} \cup {ErrOut(e) : e \in UserErrs}
PanicValue == "boom"     \* the value the caller's funcs panic with

---------------------------------------------------------------------------
(* Then and Finally, up to the point where the func is invoked.            *)

\* Variant: Then works on the caller's state in place
ReceiverOverwritten(ch, next) == next
\* Then has a value receiver and builds the state it returns: the caller's ch stays as it was
ReceiverAfterThen(ch, next) == ch

\* A guard's answer: ret says whether the call returns at once, with chain (Then) or
\* with (val, err) (Finally); fault says that the select dereferenced a nil context.

\* Variant: the nil check made before the look at c.err
ThenGuardNilFirst(ch, f, done) ==
    IF f = NilFunc THEN [ret |-> TRUE, chain |-> ErrChain(ErrNilThenFunc), fault |-> FALSE]
    ELSE IF ch.err # NoErr THEN [ret |-> TRUE, chain |-> ch, fault |-> FALSE]
    ELSE IF ch.ctx = NilCtx THEN [ret |-> TRUE, chain |-> ch, fault |-> TRUE]
    ELSE IF done THEN [ret |-> TRUE, chain |-> ErrChain(PriorTo(runtimeFuncName(f))), fault |-> FALSE]
    ELSE [ret |-> FALSE, chain |-> ch, fault |-> FALSE]

\* Variant: the select on ctx.Done() made first
ThenGuardCtxFirst(ch, f, done) ==
    IF ch.ctx = NilCtx THEN [ret |-> TRUE, chain |-> ch, fault |-> TRUE]
    ELSE IF done THEN [ret |-> TRUE, chain |-> ErrChain(PriorTo(runtimeFuncName(f))), fault |-> FALSE]
    ELSE IF ch.err # NoErr THEN [ret |-> TRUE, chain |-> ch, fault |-> FALSE]
    ELSE IF f = NilFunc THEN [ret |-> TRUE, chain |-> ErrChain(ErrNilThenFunc), fault |-> FALSE]
    ELSE [ret |-> FALSE, chain |-> ch, fault |-> FALSE]

\* Then, before thenWrap
ThenGuard(ch, f, done) ==
    IF ch.err # NoErr THEN [ret |-> TRUE, chain |-> ch, fault |-> FALSE]
    ELSE IF f = NilFunc THEN [ret |-> TRUE, chain |-> ErrChain(ErrNilThenFunc), fault |-> FALSE]
    ELSE IF ch.ctx = NilCtx THEN [ret |-> TRUE, chain |-> ch, fault |-> TRUE]
    ELSE IF done THEN [ret |-> TRUE, chain |-> ErrChain(PriorTo(runtimeFuncName(f))), fault |-> FALSE]
    ELSE [ret |-> FALSE, chain |-> ch, fault |-> FALSE]

\* Variant: the select on ctx.Done() left out
FinallyGuardNoCtx(ch, f, done) ==
    IF ch.err # NoErr THEN [ret |-> TRUE, val |-> ch.t, err |-> ch.err, fault |-> FALSE]
    ELSE IF f = NilFunc THEN [ret |-> TRUE, val |-> ch.t, err |-> ErrNilFinalFunc, fault |-> FALSE]
    ELSE [ret |-> FALSE, val |-> ch.t, err |-> NoErr, fault |-> FALSE]

\* Variant: the select on ctx.Done() made before the nil check
FinallyGuardCtxFirst(ch, f, done) ==
    IF ch.err # NoErr THEN [ret |-> TRUE, val |-> ch.t, err |-> ch.err, fault |-> FALSE]
    ELSE IF ch.ctx = NilCtx THEN [ret |-> TRUE, val |-> ch.t, err |-> NoErr, fault |-> TRUE]
    ELSE IF done THEN [ret |-> TRUE, val |-> ch.t, err |-> PriorTo(runtimeFuncName(f)), fault |-> FALSE]
    ELSE IF f = NilFunc THEN [ret |-> TRUE, val |-> ch.t, err |-> ErrNilFinalFunc, fault |-> FALSE]
    ELSE [ret |-> FALSE, val |-> ch.t, err |-> NoErr, fault |-> FALSE]

\* Finally, before finallyWrap
FinallyGuard(ch, f, done) ==
    IF ch.err # NoErr THEN [ret |-> TRUE, val |-> ch.t, err |-> ch.err, fault |-> FALSE]
    ELSE IF f = NilFunc THEN [ret |-> TRUE, val |-> ch.t, err |-> ErrNilFinalFunc, fault |-> FALSE]
    ELSE IF ch.ctx = NilCtx THEN [ret |-> TRUE, val |-> ch.t, err |-> NoErr, fault |-> TRUE]
    ELSE IF done THEN [ret |-> TRUE, val |-> ch.t, err |-> PriorTo(runtimeFuncName(f)), fault |-> FALSE]
    ELSE [ret |-> FALSE, val |-> ch.t, err |-> NoErr, fault |-> FALSE]

\* Variant: the new state keeps the old args
ThenResultKeepsArgs(ch, f, result, err) ==
    IF err # NoErr THEN ErrChain(ErrorIn(runtimeFuncName(f), err))
    ELSE [ctx |-> ch.ctx, t |-> ch.t, retry |-> ch.retry, args |-> ch.args, err |-> NoErr]

\* Variant: the error passed on as it is, without the func's name
ThenResultUnwrapped(ch, f, result, err) ==
    IF err # NoErr THEN ErrChain(err)
    ELSE [ctx |-> ch.ctx, t |-> ch.t, retry |-> ch.retry, args |-> result, err |-> NoErr]

\* Then, after thenWrap returned (result, err)
ThenResult(ch, f, result, err) ==
    IF err # NoErr THEN ErrChain(ErrorIn(runtimeFuncName(f), err))
    ELSE [ctx |-> ch.ctx, t |-> ch.t, retry |-> ch.retry, args |-> result, err |-> NoErr]

\* Variant: the func's own result handed back together with the error
FinallyResultLeaksValue(ch, f, result, err) ==
    IF err # NoErr THEN [val |-> ApplyFinal(f, ch.args), err |-> ErrorIn(runtimeFuncName(f), err)]
    ELSE [val |-> result, err |-> NoErr]

\* Finally, after finallyWrap returned (result, err)
FinallyResult(ch, f, result, err) ==
    IF err # NoErr THEN [val |-> ch.t, err |-> ErrorIn(runtimeFuncName(f), err)]
    ELSE [val |-> result, err |-> NoErr]

---------------------------------------------------------------------------
(* thenWrap and finallyWrap: the retry loop inside the recover.            *)

\* errors.Is(err, e) for some e of Forward
Forwarded(retry, err) ==
    \E i \in 1..Len(retry.Forward.elems) : ErrorsIs(err, retry.Forward.elems[i])

\* Variant: Forward not consulted
ReturnsErrorNoForward(retry, err) == retry.NumRetries = 0
\* Variant: NumRetries == 0 not singled out
ReturnsErrorNoZero(retry, err) == Forwarded(retry, err)

\* The body of the loop after the func returned err # nil: return the error, or go on to sleep.
ReturnsError(retry, err) == retry.NumRetries = 0 \/ Forwarded(retry, err)

\* Variant: the loop also stops once the context is done
LoopRunsUntilDone(retry, i) == i < 1 + retry.NumRetries /\ ~ctxDone
\* The loop runs 1 + NumRetries times.
LoopRuns(retry, i) == i < 1 + retry.NumRetries

\* Variant: finallyWrap retries even when NumRetries is 0
FinallyReturnsErrorNoZero(retry, err) == Forwarded(retry, err)
\* finallyWrap's copy of the loop body: return c.t and the error, or go on to sleep.
FinallyReturnsError(retry, err) == retry.NumRetries = 0 \/ Forwarded(retry, err)
\* finallyWrap's copy of the loop header
FinallyLoopRuns(retry, i) == i < 1 + retry.NumRetries
\* finallyWrap, when the func returned (got, err) with err # nil: got is dropped, c.t goes back
FinallyWrapVal(ch, got) == ch.t

\* Variant: no deferred recover
NoRecover == FALSE
\* The deferred recover: does it stop the panic?
Recovers == TRUE

\* c.sleep: backoff := BaseWait * (1 << attempt)
Backoff(retry, att) == Shl(Dur(retry.BaseWait), att)
\* rand.Int63n(n) panics unless n > 0
Int63nPanics(n) == ~DurLess(DurZero, n)
SleepPanics(retry, att) == Int63nPanics(Half(Backoff(retry, att)))
SleepPanicValue == "invalid argument to Int63n"
\* d - 1ns, for d > 0
DurPred(d) == IF d.lo > 0 THEN [hi |-> d.hi, lo |-> d.lo - 1] ELSE [hi |-> d.hi - 1, lo |-> Second - 1]
\* rand.Int63n(n), n > 0: some value of [0, n); the model draws the least and the greatest
Int63n(n) == {DurZero, DurPred(n)}
\* Variant: the jitter added twice
SleepForTwiceJitter(retry, att, jitter) == DurAdd(DurAdd(Backoff(retry, att), jitter), jitter)
\* sleep := backoff + jitter
SleepFor(retry, att, jitter) == DurAdd(Backoff(retry, att), jitter)

---------------------------------------------------------------------------
(* Process and ProcessWithRetries.                                         *)

\* var c = NewWithRetries[T](ctx, retry, args...)
ProcessWithRetriesNew(ctx, retry, args) == NewWithRetries(ctx, retry, Spread(args))
\* Process passes Retry{}
ProcessNew(ctx, args) == ProcessWithRetriesNew(ctx, ZeroRetry, args)

\* The call ProcessWithRetries makes after k calls of Then: the loop over fs, then Finally(fn)
ProcessCall(fsl, fnl, k) ==
    IF k < Len(fsl.elems) THEN [op |-> "Then", f |-> fsl.elems[k + 1]]
    ELSE [op |-> "Finally", f |-> fnl]

---------------------------------------------------------------------------
(* The inputs of the model.                                                *)

RawWaits == {0, 1, 3}
RawForwards == {NilSlice, Slice(<<E1>>)}
RawRetries == [NumRetries : -1..MaxRawRetries, BaseWait : RawWaits, Forward : RawForwards]
ArgInputs == {<<1>>, <<1, 2>>}
FuncInputs == Funcs \cup {NilFunc}
FinalInputs == FinalFuncs \cup {NilFunc}
FsInputs == {NilSlice} \cup {Slice(s) : s \in UNION {[1..n -> FuncInputs] : n \in 0..MaxSteps}}

NoCall == [op |-> "none", f |-> NilFunc]
NoRes == [val |-> Zero, err |-> NoErr]
NoOut == [kind |-> "none", err |-> NoErr, call |-> 0]

Init ==
    /\ ctxDone \in BOOLEAN
    /\ mode \in {"chain", "process"}
    /\ rawRetry \in RawRetries
    /\ rawArgs \in ArgInputs
    /\ IF mode = "chain" THEN fs = NilSlice /\ fn = NilFunc
       ELSE fs \in FsInputs /\ fn \in FinalInputs
    /\ c = IF mode = "chain"
           THEN (IF rawRetry = ZeroRetry THEN New(Ctx, Spread(rawArgs))
                 ELSE NewWithRetries(Ctx, rawRetry, Spread(rawArgs)))
           ELSE (IF rawRetry = ZeroRetry THEN ProcessNew(Ctx, rawArgs)
                 ELSE ProcessWithRetriesNew(Ctx, rawRetry, rawArgs))
    /\ pc = "idle"
    /\ cur = NoCall
    /\ iter = 0
    /\ attempt = 0
    /\ inArgs = <<>>
    /\ calls = 0
    /\ sleeps = <<>>
    /\ steps = <<>>
    /\ ops = <<>>
    /\ res = NoRes
    /\ lastOut = NoOut
    /\ faulted = FALSE
    /\ escaped = FALSE
    /\ slept = DurZero
    /\ callerFwd = rawRetry.Forward.elems
    /\ doneAtEnter = FALSE
    /\ cancelPc = "between"
    /\ receiver = c

---------------------------------------------------------------------------
(* The actions.                                                            *)

\* Where a cancel landed: between two calls, in an attempt of a call, or in its sleep
CancelPoint(p) ==
    IF p \in {"attempt", "running"} THEN "attempt" ELSE IF p = "sleep" THEN "sleep" ELSE "between"

\* cancel(): the context becomes done, at any moment
Cancel ==
    /\ ~ctxDone
    /\ ctxDone' = TRUE
    /\ cancelPc' = CancelPoint(pc)
    /\ UNCHANGED <<mode, rawRetry, rawArgs, fs, fn, c, pc, cur, iter, attempt,
                   inArgs, calls, sleeps, steps, ops, res, lastOut, faulted, escaped,
                   slept, callerFwd, doneAtEnter, receiver>>

\* ch.Then(f) or ch.Finally(f) is called: everything up to the call of
\* thenWrap/finallyWrap.  From here on c is the state the call was made on.
EnterOn(ch, op, f) ==
    /\ pc = "idle"
    /\ ops' = Append(ops, [op |-> op, f |-> f])
    /\ cur' = [op |-> op, f |-> f]
    /\ calls' = 0
    /\ sleeps' = <<>>
    /\ iter' = 0
    /\ attempt' = 0
    /\ IF op = "Then"
       THEN IF ThenGuard(ch, f, ctxDone).fault
            THEN c' = ch /\ receiver' = receiver /\ pc' = "crashed" /\ res' = res
            ELSE /\ c' = ThenGuard(ch, f, ctxDone).chain
                 /\ receiver' = IF ThenGuard(ch, f, ctxDone).ret
                                THEN ReceiverAfterThen(ch, ThenGuard(ch, f, ctxDone).chain)
                                ELSE receiver
                 /\ pc' = IF ThenGuard(ch, f, ctxDone).ret THEN "idle" ELSE "attempt"
                 /\ res' = res
       ELSE IF FinallyGuard(ch, f, ctxDone).fault
            THEN c' = ch /\ receiver' = receiver /\ pc' = "crashed" /\ res' = res
            ELSE /\ c' = ch
                 /\ receiver' = receiver
                 /\ pc' = IF FinallyGuard(ch, f, ctxDone).ret THEN "done" ELSE "attempt"
                 /\ res' = IF FinallyGuard(ch, f, ctxDone).ret
                           THEN [val |-> FinallyGuard(ch, f, ctxDone).val,
                                 err |-> FinallyGuard(ch, f, ctxDone).err]
                           ELSE res
    \* the select is outside thenWrap/finallyWrap: nothing recovers its panic
    /\ escaped' = (escaped \/ (IF op = "Then" THEN ThenGuard(ch, f, ctxDone).fault
                                ELSE FinallyGuard(ch, f, ctxDone).fault))
    /\ slept' = DurZero
    /\ doneAtEnter' = ctxDone
    /\ UNCHANGED <<ctxDone, mode, rawRetry, rawArgs, fs, fn, inArgs, steps, lastOut,
                   faulted, callerFwd, cancelPc>>

\* The call is made on the caller's current state
Enter(op, f) == EnterOn(c, op, f)

\* The caller chains a Then
CallThen(f) ==
    /\ mode = "chain"
    /\ Len(ops) < MaxSteps
    /\ Enter("Then", f)

\* The caller ends the chain with Finally
CallFinally(g) ==
    /\ mode = "chain"
    /\ Enter("Finally", g)

\* ProcessWithRetries makes its next call
ProcessStep ==
    /\ mode = "process"
    /\ Enter(ProcessCall(fs, fn, Len(ops)).op, ProcessCall(fs, fn, Len(ops)).f)

\* thenWrap/finallyWrap returned (result, err) to Then, or (val, err) to Finally
Complete(result, val, err) ==
    IF cur.op = "Then"
    THEN /\ c' = ThenResult(c, cur.f, result, err)
         /\ receiver' = ReceiverAfterThen(c, ThenResult(c, cur.f, result, err))
         /\ pc' = "idle"
         /\ res' = res
    ELSE /\ c' = c
         /\ receiver' = receiver
         /\ pc' = "done"
         /\ res' = FinallyResult(c, cur.f, val, err)

\* A panic inside thenWrap/finallyWrap, with value r
Panicked(r) ==
    IF Recovers
    THEN Complete(<<>>, Zero, PanicErr(r)) /\ escaped' = escaped
    ELSE c' = c /\ receiver' = receiver /\ res' = res /\ pc' = "crashed" /\ escaped' = TRUE

\* The loop's next iteration: f(c.ctx, c.args...) is called
Invoke ==
    /\ pc = "attempt"
    /\ IF cur.op = "Then" THEN LoopRuns(c.retry, iter) ELSE FinallyLoopRuns(c.retry, iter)
    /\ pc' = "running"
    /\ calls' = calls + 1
    /\ inArgs' = c.args
    /\ steps' = IF calls = 0
                THEN Append(steps, [op |-> cur.op, f |-> cur.f, args |-> c.args])
                ELSE steps
    /\ lastOut' = [kind |-> "pending", err |-> NoErr, call |-> Len(ops)]
    /\ slept' = DurZero
    /\ UNCHANGED <<ctxDone, mode, rawRetry, rawArgs, fs, fn, c, cur, iter, attempt,
                   sleeps, ops, res, faulted, escaped, callerFwd, doneAtEnter, cancelPc, receiver>>

\* The loop is over: return ErrExceededRetries
Exhausted ==
    /\ pc = "attempt"
    /\ ~(IF cur.op = "Then" THEN LoopRuns(c.retry, iter) ELSE FinallyLoopRuns(c.retry, iter))
    /\ Complete(<<>>, c.t, ErrExceededRetries)
    /\ UNCHANGED <<ctxDone, mode, rawRetry, rawArgs, fs, fn, cur, iter, attempt,
                   inArgs, calls, sleeps, steps, ops, lastOut, faulted, escaped,
                   slept, callerFwd, doneAtEnter, cancelPc>>

\* The func returns or panics
FuncReturns(out) ==
    /\ pc = "running"
    /\ CASE out.kind = "ok" ->
              /\ Complete(Apply(cur.f, inArgs), ApplyFinal(cur.f, inArgs), NoErr)
              /\ escaped' = escaped
         [] out.kind = "err" ->
              /\ IF (IF cur.op = "Then" THEN ReturnsError(c.retry, out.err)
                     ELSE FinallyReturnsError(c.retry, out.err))
                 THEN Complete(<<>>, FinallyWrapVal(c, ApplyFinal(cur.f, inArgs)), out.err)
                 ELSE c' = c /\ receiver' = receiver /\ res' = res /\ pc' = "sleep"
              /\ escaped' = escaped
         [] out.kind = "panic" -> Panicked(PanicValue)
    /\ lastOut' = [kind |-> out.kind, err |-> out.err, call |-> lastOut.call]
    /\ faulted' = (faulted \/ out.kind # "ok")
    /\ UNCHANGED <<ctxDone, mode, rawRetry, rawArgs, fs, fn, cur, iter, attempt,
                   inArgs, calls, sleeps, steps, ops, slept, callerFwd, doneAtEnter, cancelPc>>

\* c.sleep(attempt); attempt++.  The sleep is not a select: nothing interrupts it.
Sleep ==
    /\ pc = "sleep"
    /\ IF SleepPanics(c.retry, attempt)
       THEN /\ Panicked(SleepPanicValue)
            /\ UNCHANGED <<sleeps, attempt, iter, slept>>
       ELSE /\ \E jitter \in Int63n(Half(Backoff(c.retry, attempt))) :
                   slept' = SleepFor(c.retry, attempt, jitter)
            /\ sleeps' = Append(sleeps, attempt)
            /\ attempt' = attempt + 1
            /\ iter' = iter + 1
            /\ pc' = "attempt"
            /\ UNCHANGED <<c, res, escaped, receiver>>
    /\ UNCHANGED <<ctxDone, mode, rawRetry, rawArgs, fs, fn, cur, inArgs, calls,
                   steps, ops, lastOut, faulted, callerFwd, doneAtEnter, cancelPc>>

Next ==
    \/ Cancel
    \/ \E f \in FuncInputs : CallThen(f)
    \/ \E g \in FinalInputs : CallFinally(g)
    \/ ProcessStep
    \/ Invoke
    \/ Exhausted
    \/ \E out \in Outcomes : FuncReturns(out)
    \/ Sleep

Spec == Init /\ [][Next]_vars

---------------------------------------------------------------------------
(* Notions the properties share.                                           *)

\* The policy the chain was built with
Policy == ensureValid(rawRetry)
\* The call in progress, or the latest one, has returned to the caller
Returned == pc \in {"idle", "done"}
\* The error the caller holds: Finally's, once it has returned, else the state's
HeldErr == IF pc = "done" THEN res.err ELSE c.err
\* A step of the model in which Then or Finally is called
IsCall == ops' # ops
\* The func that was invoked last
LastFunc == steps[Len(steps)].f
\* The latest invocation belongs to the latest call
InLatestCall == lastOut.call = Len(ops)

---------------------------------------------------------------------------
(* C1: once the state carries an error, every later Then (any func, nil    *)
(* included) returns the very same state and invokes nothing, and Finally  *)
(* (any func, nil included) returns that same error and invokes nothing.   *)
(* Stated of every step taken from an errored state, it holds after any    *)
(* number of further calls.                                                *)

C1_Step ==
    (pc = "idle" /\ c.err # NoErr) =>
        /\ c' = c
        /\ steps' = steps
        /\ lastOut' = lastOut
        /\ pc' \in {"idle", "done"}
        /\ (IsCall => calls' = 0)
        /\ (pc' = "done" => res'.err = c.err /\ res'.val = c.t)
C1_ErrorIsTerminal == [][C1_Step]_vars

\* A Then failed after its retries, a Then(nil) followed, and Finally(nil) returned the first error
C1_Witness ==
    /\ pc = "done"
    /\ ops = <<[op |-> "Then", f |-> "f1"], [op |-> "Then", f |-> NilFunc],
               [op |-> "Finally", f |-> NilFunc]>>
    /\ Len(steps) = 1
    /\ res.err = ErrorIn(runtimeFuncName("f1"), ErrExceededRetries)

---------------------------------------------------------------------------
(* C2: with the context never done, no nil func and no invocation that     *)
(* returned an error or panicked, once a call has returned every call made *)
(* so far has invoked its func (one entry of steps per call, in the order  *)
(* of the calls, the latest call with exactly one invocation), the first   *)
(* func got the caller's args, every later one got what the func before it *)
(* returned, the state holds the latest result with no error, and Finally  *)
(* returns its func's result with a nil error.                             *)

NoNilCall == \A i \in 1..Len(ops) : ops[i].f # NilFunc
C2_Composition ==
    (Returned /\ ~ctxDone /\ ~faulted /\ NoNilCall) =>
        /\ Len(steps) = Len(ops)
        /\ \A i \in 1..Len(steps) : steps[i].op = ops[i].op /\ steps[i].f = ops[i].f
        /\ calls = (IF ops = <<>> THEN 0 ELSE 1)
        /\ (steps # <<>> => steps[1].args = Spread(rawArgs))
        /\ \A i \in 2..Len(steps) : steps[i].args = Apply(steps[i - 1].f, steps[i - 1].args)
        /\ c.err = NoErr
        /\ (pc = "idle" /\ steps # <<>> =>
                c.args = Apply(LastFunc, steps[Len(steps)].args))
        /\ (pc = "done" =>
                res = [val |-> ApplyFinal(LastFunc, steps[Len(steps)].args), err |-> NoErr])

\* New(ctx, 1).Then(f1).Then(f2).Finally(g1): (1 + 1) * 2 = 4, and g1 makes 15 of it
C2_Witness ==
    /\ pc = "done"
    /\ ~ctxDone
    /\ ~faulted
    /\ rawArgs = <<1>>
    /\ ops = <<[op |-> "Then", f |-> "f1"], [op |-> "Then", f |-> "f2"],
               [op |-> "Finally", f |-> "g1"]>>
    /\ res = [val |-> 15, err |-> NoErr]

---------------------------------------------------------------------------
(* C3: with no retries configured, when the func invoked last returned an  *)
(* error, the call has returned, no func has been invoked since (the       *)
(* latest invocation is still that one), and the error held from then on,  *)
(* and returned by Finally, is "error in <name of that func>: <cause>":    *)
(* it wraps the cause and names that func only.                            *)

NamedFuncs(err) == {err[i].tag : i \in {j \in 1..Len(err) : err[j].kind = "error in"}}
C3_StepError ==
    (Policy.NumRetries = 0 /\ lastOut.kind = "err") =>
        /\ Returned
        /\ lastOut.call = Len(steps)
        /\ HeldErr = ErrorIn(runtimeFuncName(LastFunc), lastOut.err)
        /\ ErrorsIs(HeldErr, lastOut.err)
        /\ ErrorText(HeldErr) =
               <<"error in ", runtimeFuncName(LastFunc), ": ">> \o ErrorText(lastOut.err)
        /\ NamedFuncs(HeldErr) = {runtimeFuncName(LastFunc)}
        /\ (pc = "done" => res.val = Zero)

\* f1 succeeded, f2 returned w1: E1, and Finally(g1) returned "error in main.f2: w1: E1"
C3_Witness ==
    /\ pc = "done"
    /\ Policy.NumRetries = 0
    /\ ops = <<[op |-> "Then", f |-> "f1"], [op |-> "Then", f |-> "f2"],
               [op |-> "Finally", f |-> "g1"]>>
    /\ Len(steps) = 2
    /\ lastOut.kind = "err"
    /\ ErrorText(res.err) = <<"error in ", "main.f2", ": ", "w1", ": ", "E1">>

---------------------------------------------------------------------------
(* C4: wherever the cancel lands, a Then or Finally called with a non-nil  *)
(* func on an error-free state while the context is done invokes nothing   *)
(* and yields an error that is ErrContextDone (Finally with T's zero       *)
(* value); and while the state holds that error no func is invoked.        *)

PriorErr(err) == err # NoErr /\ err[1].kind = "prior to call to"
C4_Step ==
    /\ (pc = "idle" /\ c.err = NoErr /\ ctxDone /\ IsCall /\ cur'.f # NilFunc) =>
            /\ steps' = steps
            /\ calls' = 0
            /\ lastOut' = lastOut
            /\ (cur'.op = "Then" =>
                    /\ pc' = "idle"
                    /\ c'.err = PriorTo(runtimeFuncName(cur'.f))
                    /\ ErrorsIs(c'.err, ErrContextDone))
            /\ (cur'.op = "Finally" =>
                    /\ pc' = "done"
                    /\ res'.err = PriorTo(runtimeFuncName(cur'.f))
                    /\ ErrorsIs(res'.err, ErrContextDone)
                    /\ res'.val = Zero)
    /\ (PriorErr(HeldErr) => steps' = steps /\ pc' \in {"idle", "done"} /\ HeldErr' = HeldErr)
C4_CancelObserved == [][C4_Step]_vars

\* The context was live when Then(f1) began and done when f1 had returned: Finally(g1) was not run
C4_Witness ==
    /\ pc = "done"
    /\ ops = <<[op |-> "Then", f |-> "f1"], [op |-> "Finally", f |-> "g1"]>>
    /\ steps = <<[op |-> "Then", f |-> "f1", args |-> Spread(rawArgs)]>>
    /\ lastOut.kind = "ok"
    /\ res = [val |-> Zero, err |-> PriorTo("main.g1")]

---------------------------------------------------------------------------
(* C5: no panic reaches the caller; when the latest invocation panicked,   *)
(* the call has returned with an error that is ErrUnhandledPanic, its      *)
(* func has not been invoked again whatever NumRetries is (no sleep or     *)
(* attempt follows the panic), and Finally returns T's zero value.         *)

C5_PanicContained ==
    /\ ~escaped
    /\ pc # "crashed"
    /\ (lastOut.kind = "panic" =>
            /\ Returned
            /\ ErrorsIs(HeldErr, ErrUnhandledPanic)
            /\ HeldErr = ErrorIn(runtimeFuncName(LastFunc), PanicErr(PanicValue))
            /\ (InLatestCall => Len(sleeps) = calls - 1)
            /\ (pc = "done" => res.val = Zero))

\* With eight retries allowed, the second attempt of Finally's func panics
C5_Witness ==
    /\ pc = "done"
    /\ cur.op = "Finally"
    /\ lastOut.kind = "panic"
    /\ InLatestCall
    /\ calls = 2
    /\ Policy.NumRetries = 8
    /\ ErrorsIs(res.err, ErrUnhandledPanic)

---------------------------------------------------------------------------
(* C6: with NumRetries = n >= 1, a call whose func returned on every       *)
(* attempt an error that matches no entry of Forward has invoked the func  *)
(* n + 1 times and yields ErrExceededRetries.  (A call that has returned   *)
(* after an unforwarded error made only such attempts: any other outcome   *)
(* of an attempt ends the call at once.)                                   *)

AllAttemptsFailed ==
    /\ Returned
    /\ InLatestCall
    /\ lastOut.kind = "err"
    /\ ~Forwarded(Policy, lastOut.err)
C6_ExhaustsRetries ==
    (Policy.NumRetries >= 1 /\ AllAttemptsFailed) =>
        /\ calls = Policy.NumRetries + 1
        /\ ErrorsIs(HeldErr, ErrExceededRetries)

\* The same, for the policies whose first backoff does not panic in rand.Int63n
C6_ExhaustsRetriesUnlessSleepPanics ==
    (Policy.NumRetries >= 1 /\ AllAttemptsFailed /\ ~SleepPanics(Policy, 0)) =>
        /\ calls = Policy.NumRetries + 1
        /\ ErrorsIs(HeldErr, ErrExceededRetries)
        /\ HeldErr = ErrorIn(runtimeFuncName(LastFunc), ErrExceededRetries)

\* With BaseWait = 1ns the first backoff panics, and the call ends after one invocation
C6_SleepPanicSeen ==
    /\ Policy.NumRetries >= 1
    /\ AllAttemptsFailed
    /\ calls = 1
    /\ HeldErr = ErrorIn(runtimeFuncName(LastFunc), PanicErr(SleepPanicValue))

---------------------------------------------------------------------------
(* C7: with NumRetries >= 1, when the latest invocation returned an error  *)
(* that matches an entry of Forward, the call has returned (no sleep and   *)
(* no further invocation follows that attempt: k attempts, k - 1 sleeps),  *)
(* and the error held wraps the returned error, is the Forward sentinel    *)
(* and is not ErrExceededRetries.  A first attempt that matches is the     *)
(* only invocation: the call cannot reach a second one.                    *)

C7_Forwarded ==
    (Policy.NumRetries >= 1 /\ lastOut.kind = "err" /\ Forwarded(Policy, lastOut.err)) =>
        /\ Returned
        /\ HeldErr = ErrorIn(runtimeFuncName(LastFunc), lastOut.err)
        /\ ErrorsIs(HeldErr, lastOut.err)
        /\ \E i \in 1..Len(Policy.Forward.elems) : ErrorsIs(HeldErr, Policy.Forward.elems[i])
        /\ ~ErrorsIs(HeldErr, ErrExceededRetries)
        /\ (InLatestCall => Len(sleeps) = calls - 1 /\ sleeps = [i \in 1..(calls - 1) |-> i - 1])

\* Two attempts of f1 failed with E2 and were retried; the third returned w1: E1, which is E1
C7_Witness ==
    /\ pc = "idle"
    /\ Policy.NumRetries = 8
    /\ InLatestCall
    /\ calls = 3
    /\ sleeps = <<0, 1>>
    /\ lastOut = [kind |-> "err", err |-> W1, call |-> 1]
    /\ c.err = ErrorIn("main.f1", W1)

---------------------------------------------------------------------------
(* C8: with NumRetries == 0 after normalisation (New, Process, a negative  *)
(* NumRetries), no call ever sleeps or invokes its func twice, and when    *)
(* the latest invocation returned an error the call has returned and the   *)
(* error held wraps that error and is not ErrExceededRetries, whatever     *)
(* Forward holds.                                                          *)

C8_NoRetry ==
    (Policy.NumRetries = 0) =>
        /\ calls <= 1
        /\ sleeps = <<>>
        /\ pc # "sleep"
        /\ ~ErrorsIs(HeldErr, ErrExceededRetries)
        /\ (lastOut.kind = "err" =>
                /\ Returned
                /\ HeldErr = ErrorIn(runtimeFuncName(LastFunc), lastOut.err)
                /\ ErrorsIs(HeldErr, lastOut.err))

\* NumRetries = -1 and Forward = {E1}: g1 returned E2, which Forward does not hold
C8_Witness ==
    /\ pc = "done"
    /\ rawRetry.NumRetries = -1
    /\ rawRetry.Forward = Slice(<<E1>>)
    /\ lastOut.kind = "err"
    /\ lastOut.err = E2
    /\ InLatestCall
    /\ calls = 1
    /\ res = [val |-> Zero, err |-> ErrorIn("main.g1", E2)]

---------------------------------------------------------------------------
(* C9: on an error-free state Then(nil) returns a state whose error is     *)
(* ErrNilThenFunc and Finally(nil) returns T's zero value with             *)
(* ErrNilFinalFunc, whatever came before and whether or not the context is *)
(* done; a Finally that follows a Then(nil) returns ErrNilThenFunc and     *)
(* invokes nothing.                                                        *)

C9_Step ==
    /\ (pc = "idle" /\ c.err = NoErr /\ IsCall /\ cur'.f = NilFunc) =>
            /\ steps' = steps
            /\ calls' = 0
            /\ (cur'.op = "Then" => pc' = "idle" /\ c' = ErrChain(ErrNilThenFunc))
            /\ (cur'.op = "Finally" =>
                    pc' = "done" /\ res' = [val |-> Zero, err |-> ErrNilFinalFunc])
    /\ (pc = "idle" /\ c.err = ErrNilThenFunc /\ IsCall /\ cur'.op = "Finally") =>
            /\ steps' = steps
            /\ pc' = "done"
            /\ res' = [val |-> Zero, err |-> ErrNilThenFunc]
C9_NilFuncs == [][C9_Step]_vars

\* Process(ctx, []Func{f1, nil}, g1, args): f1 ran, g1 did not, the error is ErrNilThenFunc
C9_Witness ==
    /\ mode = "process"
    /\ pc = "done"
    /\ fs = Slice(<<"f1", NilFunc>>)
    /\ fn = "g1"
    /\ Len(steps) = 1
    /\ lastOut.kind = "ok"
    /\ res = [val |-> Zero, err |-> ErrNilThenFunc]

\* Process(ctx, nil, nil, args): Finally(nil) on the initial state
C9_WitnessNilFinal ==
    /\ mode = "process"
    /\ pc = "done"
    /\ fs = NilSlice
    /\ fn = NilFunc
    /\ res = [val |-> Zero, err |-> ErrNilFinalFunc]

---------------------------------------------------------------------------
(* The repository's other file of package chain (src/unnamed/part_000):    *)
(* New, Process, Then and Finally without retries and without a recover.   *)
(* Its chain has no retry field; the record keeps the field, unused.       *)

New0(ctx, args) == [ctx |-> ctx, t |-> Zero, retry |-> ZeroRetry, args |-> args, err |-> NoErr]

\* c := New[T](ctx, args): the slice is passed as the one variadic argument
Process0New(ctx, args) == New0(ctx, Nested(args))

\* The call Process makes after k calls of Then
Process0Call(fsl, fnl, k) ==
    IF k < Len(fsl.elems) THEN [op |-> "Then", f |-> fsl.elems[k + 1]]
    ELSE [op |-> "Finally", f |-> fnl]

Then0Guard(ch, f, done) ==
    IF ch.err # NoErr THEN [ret |-> TRUE, chain |-> ch]
    ELSE IF f = NilFunc THEN [ret |-> TRUE, chain |-> ErrChain(ErrNilThenFunc)]
    ELSE IF done THEN [ret |-> TRUE, chain |-> ErrChain(PriorTo(runtimeFuncName(f)))]
    ELSE [ret |-> FALSE, chain |-> ch]

Finally0Guard(ch, f, done) ==
    IF ch.err # NoErr THEN [ret |-> TRUE, val |-> ch.t, err |-> ch.err]
    ELSE IF f = NilFunc THEN [ret |-> TRUE, val |-> ch.t, err |-> ErrNilFinalFunc]
    ELSE IF done THEN [ret |-> TRUE, val |-> ch.t, err |-> PriorTo(runtimeFuncName(f))]
    ELSE [ret |-> FALSE, val |-> ch.t, err |-> NoErr]

Then0Result(ch, f, result, err) ==
    IF err # NoErr THEN ErrChain(ErrorIn(runtimeFuncName(f), err))
    ELSE [ctx |-> ch.ctx, t |-> ch.t, retry |-> ch.retry, args |-> result, err |-> NoErr]

Finally0Result(ch, f, result, err) ==
    IF err # NoErr THEN [val |-> ch.t, err |-> ErrorIn(runtimeFuncName(f), err)]
    ELSE [val |-> result, err |-> NoErr]

Init0 ==
    /\ ctxDone \in BOOLEAN
    /\ mode = "process"
    /\ rawRetry = ZeroRetry
    /\ rawArgs \in ArgInputs
    /\ fs \in FsInputs
    /\ fn \in FinalInputs
    /\ c = Process0New(Ctx, rawArgs)
    /\ pc = "idle"
    /\ cur = NoCall
    /\ iter = 0
    /\ attempt = 0
    /\ inArgs = <<>>
    /\ calls = 0
    /\ sleeps = <<>>
    /\ steps = <<>>
    /\ ops = <<>>
    /\ res = NoRes
    /\ lastOut = NoOut
    /\ faulted = FALSE
    /\ escaped = FALSE
    /\ slept = DurZero
    /\ callerFwd = rawRetry.Forward.elems
    /\ doneAtEnter = FALSE
    /\ cancelPc = "between"
    /\ receiver = c

\* Process makes its next call: Then or Finally up to the invocation of the func
Step0 ==
    /\ pc = "idle"
    /\ LET call == Process0Call(fs, fn, Len(ops))
           tg == Then0Guard(c, call.f, ctxDone)
           fg == Finally0Guard(c, call.f, ctxDone)
           runs == IF call.op = "Then" THEN ~tg.ret ELSE ~fg.ret
       IN  /\ ops' = Append(ops, call)
           /\ cur' = call
           /\ c' = IF call.op = "Then" THEN tg.chain ELSE c
           /\ res' = IF call.op = "Finally" /\ fg.ret
                     THEN [val |-> fg.val, err |-> fg.err] ELSE res
           /\ pc' = IF runs THEN "running" ELSE IF call.op = "Then" THEN "idle" ELSE "done"
           /\ calls' = IF runs THEN 1 ELSE 0
           /\ inArgs' = IF runs THEN c.args ELSE inArgs
           /\ steps' = IF runs
                       THEN Append(steps, [op |-> call.op, f |-> call.f, args |-> c.args])
                       ELSE steps
           /\ lastOut' = IF runs
                         THEN [kind |-> "pending", err |-> NoErr, call |-> Len(ops) + 1]
                         ELSE lastOut
    /\ UNCHANGED <<ctxDone, mode, rawRetry, rawArgs, fs, fn, iter, attempt, sleeps,
                   faulted, escaped, slept, callerFwd, doneAtEnter, cancelPc, receiver>>

\* The func returns, or panics: nothing recovers the panic
Return0(out) ==
    /\ pc = "running"
    /\ CASE out.kind = "panic" -> c' = c /\ res' = res /\ pc' = "crashed" /\ escaped' = TRUE
         [] cur.op = "Then" /\ out.kind # "panic" ->
              /\ c' = Then0Result(c, cur.f, Apply(cur.f, inArgs), out.err)
              /\ pc' = "idle"
              /\ res' = res
              /\ escaped' = escaped
         [] cur.op = "Finally" /\ out.kind # "panic" ->
              /\ c' = c
              /\ pc' = "done"
              /\ res' = Finally0Result(c, cur.f, ApplyFinal(cur.f, inArgs), out.err)
              /\ escaped' = escaped
    /\ lastOut' = [kind |-> out.kind, err |-> out.err, call |-> lastOut.call]
    /\ faulted' = (faulted \/ out.kind # "ok")
    /\ UNCHANGED <<ctxDone, mode, rawRetry, rawArgs, fs, fn, cur, iter, attempt,
                   inArgs, calls, sleeps, steps, ops, slept, callerFwd, doneAtEnter, cancelPc,
                   receiver>>

Next0 ==
    \/ Cancel
    \/ Step0
    \/ \E out \in Outcomes : Return0(out)

Spec0 == Init0 /\ [][Next0]_vars

---------------------------------------------------------------------------
(* C10: Process and ProcessWithRetries do what the caller's own chain      *)
(* New/NewWithRetries(...).Then(fs[1])...Then(fs[m]).Finally(fn) does: the *)
(* chain starts error-free from the caller's context; the calls made are   *)
(* Then(f) for each f of fs in order and then Finally(fn), none left out   *)
(* or added, each made by the same Then and Finally as the caller's; the   *)
(* first func invoked receives the caller's args element for element; with *)
(* fs nil or empty the one call is Finally(fn) on the initial state.       *)

ChainedCall(i) ==
    IF i <= Len(fs.elems) THEN [op |-> "Then", f |-> fs.elems[i]]
    ELSE [op |-> "Finally", f |-> fn]
C10_ProcessIsTheChain ==
    (mode = "process") =>
        /\ (ops = <<>> => c.ctx = Ctx /\ c.err = NoErr)
        /\ Len(ops) <= Len(fs.elems) + 1
        /\ \A i \in 1..Len(ops) : ops[i] = ChainedCall(i)
        /\ (pc = "idle" => Len(ops) <= Len(fs.elems))
        /\ (pc = "done" => Len(ops) = Len(fs.elems) + 1)
        /\ (steps # <<>> => steps[1].args = Spread(rawArgs))
        /\ (fs.elems = <<>> /\ steps # <<>> =>
                steps = <<[op |-> "Finally", f |-> fn, args |-> Spread(rawArgs)]>>)

\* The policy ProcessWithRetries hands to the chain is the normalised one
C10_ProcessPolicy ==
    (mode = "process" /\ c.err = NoErr) => c.retry = Policy

\* Process(ctx, []Func{f1}, g1, 1, 2) has run f1 and g1
C10_ProcessRan ==
    /\ mode = "process"
    /\ pc = "done"
    /\ rawArgs = <<1, 2>>
    /\ fs = Slice(<<"f1">>)
    /\ Len(steps) = 2
    /\ res.err = NoErr

---------------------------------------------------------------------------
(* C11: the result that comes with an error.                               *)

\* The final func of the latest call returned an error, and a non-zero value with it
FinalFuncFailedWithValue ==
    /\ cur.op = "Finally"
    /\ InLatestCall
    /\ lastOut.kind = "err"
    /\ ApplyFinal(cur.f, inArgs) # Zero

\* C11: whenever Finally (and so Process) returns a non-nil error, whatever
\* the cause, the result it returns is T's zero value, even when the failing
\* final func returned a non-zero value along with its error; a non-zero
\* result comes only with a nil error.
C11_ErrorMeansZero ==
    pc = "done" =>
        /\ res.err # NoErr => res.val = Zero
        /\ res.val # Zero => res.err = NoErr

C11_Witness ==
    /\ pc = "done"
    /\ FinalFuncFailedWithValue
    /\ res.err = ErrorIn(runtimeFuncName(cur.f), lastOut.err)
    /\ res.val = Zero

---------------------------------------------------------------------------
(* C12: the backoff.                                                       *)

\* The sleep just made, with retry index i, lasted d: backoff <= d < backoff * 1.5
InBackoffRange(retry, i, d) ==
    /\ DurLeq(Backoff(retry, i), d)
    /\ DurLess(Double(d), DurAdd(Double(Backoff(retry, i)), Backoff(retry, i)))

\* The retry index of the sleep just made
LastSleepIndex == sleeps[Len(sleeps)]

\* A sleep was just made: the next attempt has not begun
JustSlept == pc = "attempt" /\ sleeps # <<>>

\* The retry indices of one call start at 0 and go up by one per backoff
SleepIndicesCount == \A i \in 1..Len(sleeps) : sleeps[i] = i - 1

\* C12: for every normalized policy (BaseWait in (0, 1s], the smallest, 1ns,
\* included; NumRetries 1..8) and every retry index i (0 for the first
\* backoff of a call, one more per backoff), the backoff computation
\* completes without fault, and the duration d slept satisfies
\* BaseWait * 2^i <= d < BaseWait * 2^i * 1.5.
C12_BackoffInRange ==
    /\ pc = "sleep" => ~Int63nPanics(Half(Shl(Dur(c.retry.BaseWait), attempt)))
    /\ SleepIndicesCount
    /\ JustSlept => InBackoffRange(c.retry, LastSleepIndex, slept)

\* What the code does keep: whenever a backoff completes, it is in range
C12_InRangeWhenNoFault ==
    /\ SleepIndicesCount
    /\ JustSlept => InBackoffRange(c.retry, LastSleepIndex, slept)
    /\ pc = "sleep" /\ c.retry.BaseWait > 1 => ~Int63nPanics(Half(Shl(Dur(c.retry.BaseWait), attempt)))

\* A backoff of the greatest index of the model completed with the greatest jitter
C12_LongestSleepSeen ==
    /\ JustSlept
    /\ LastSleepIndex = MaxNumRetries
    /\ c.retry.BaseWait = DefaultBaseWait
    /\ slept = DurAdd(Backoff(c.retry, MaxNumRetries), DurPred(Half(Backoff(c.retry, MaxNumRetries))))

---------------------------------------------------------------------------
(* A second specification, for the normalisation of Retry and the backoff: *)
(* the same chain, built from a wider set of Retry values, and a caller    *)
(* that goes on writing to the Forward slice it passed in.                 *)

WaitInputs == {-1, 0, 1, 2, 3, DefaultBaseWait, Second - 1, Second, Second + 1, 2 * Second}
ForwardInputs == {NilSlice, Slice(<<>>), Slice(<<E1>>)}
RetryInputs == [NumRetries : -1..MaxRawRetries, BaseWait : WaitInputs, Forward : ForwardInputs]

InitRetry ==
    /\ ctxDone = FALSE
    /\ mode = "chain"
    /\ rawRetry \in RetryInputs
    /\ rawArgs = <<1>>
    /\ fs = NilSlice
    /\ fn = NilFunc
    /\ c = NewWithRetries(Ctx, rawRetry, Spread(rawArgs))
    /\ pc = "idle"
    /\ cur = NoCall
    /\ iter = 0
    /\ attempt = 0
    /\ inArgs = <<>>
    /\ calls = 0
    /\ sleeps = <<>>
    /\ steps = <<>>
    /\ ops = <<>>
    /\ res = NoRes
    /\ lastOut = NoOut
    /\ faulted = FALSE
    /\ escaped = FALSE
    /\ slept = DurZero
    /\ callerFwd = rawRetry.Forward.elems
    /\ doneAtEnter = FALSE
    /\ cancelPc = "between"
    /\ receiver = c

\* The caller overwrites the first element of its own Forward slice
CallerWritesForward(e) ==
    /\ callerFwd # <<>>
    /\ callerFwd[1] # e
    /\ callerFwd' = [callerFwd EXCEPT ![1] = e]
    /\ c' = IF c.err = NoErr
            THEN [c EXCEPT !.retry.Forward = ForwardAfterCallerWrite(c.retry.Forward, callerFwd')]
            ELSE c
    /\ UNCHANGED <<ctxDone, mode, rawRetry, rawArgs, fs, fn, pc, cur, iter, attempt,
                   inArgs, calls, sleeps, steps, ops, res, lastOut, faulted, escaped,
                   slept, doneAtEnter, cancelPc, receiver>>

NextRetry ==
    \/ \E e \in {E1, E2} : CallerWritesForward(e)
    \/ \E f \in Funcs : CallThen(f)
    \/ \E g \in FinalFuncs : CallFinally(g)
    \/ Invoke
    \/ Exhausted
    \/ \E out \in Outcomes : FuncReturns(out)
    \/ Sleep

SpecRetry == InitRetry /\ [][NextRetry]_vars

---------------------------------------------------------------------------
(* C13: the policy a chain starts with.                                    *)

\* The errors a policy forwards, among those the funcs return
ForwardedErrs(retry) == {e \in UserErrs : Forwarded(retry, e)}
\* The same, read off the slice the caller passed at construction
PassedErrs == {e \in UserErrs : \E i \in 1..Len(rawRetry.Forward.elems) :
                                    ErrorsIs(e, rawRetry.Forward.elems[i])}

\* C13: for any Retry value passed to NewWithRetries/ProcessWithRetries the
\* policy of the chain has 0 <= NumRetries <= 8 and 0 < BaseWait <= 1s: a
\* negative NumRetries becomes 0, one above 8 becomes 8, a BaseWait <= 0
\* becomes 10ms, one above 1s becomes 1s, and values in range are kept.
\* Construction never fails; normalizing the normalized policy changes
\* nothing; Forward is a copy, so what the caller later writes to its own
\* slice does not change which errors the chain forwards.
C13_PolicyNormalized ==
    /\ ops = <<>> => c.err = NoErr
    /\ c.err = NoErr =>
        /\ c.retry.NumRetries \in 0..8
        /\ c.retry.BaseWait > 0 /\ c.retry.BaseWait <= 1000000000
        /\ rawRetry.NumRetries < 0 => c.retry.NumRetries = 0
        /\ rawRetry.NumRetries > 8 => c.retry.NumRetries = 8
        /\ rawRetry.NumRetries \in 0..8 => c.retry.NumRetries = rawRetry.NumRetries
        /\ rawRetry.BaseWait <= 0 => c.retry.BaseWait = 10000000
        /\ rawRetry.BaseWait > 1000000000 => c.retry.BaseWait = 1000000000
        /\ (rawRetry.BaseWait > 0 /\ rawRetry.BaseWait <= 1000000000) =>
               c.retry.BaseWait = rawRetry.BaseWait
        /\ ensureValid(c.retry) = c.retry
        /\ ~c.retry.Forward.isNil
        /\ ForwardedErrs(c.retry) = PassedErrs

\* The caller passed NumRetries 9 and BaseWait 2s, with Forward = [E1], then
\* overwrote the slice with E2; a func returned E1 and the chain forwarded it.
C13_Witness ==
    /\ rawRetry.NumRetries = 9
    /\ rawRetry.BaseWait = 2 * Second
    /\ rawRetry.Forward = Slice(<<E1>>)
    /\ callerFwd = <<E2>>
    /\ pc = "idle"
    /\ calls = 1
    /\ lastOut = [kind |-> "err", err |-> E1, call |-> 1]
    /\ c.err = ErrorIn(runtimeFuncName(cur.f), E1)
    /\ receiver.retry = [NumRetries |-> 8, BaseWait |-> Second, Forward |-> Slice(<<E1>>)]

---------------------------------------------------------------------------
(* C14: the sleeps of one call.                                            *)

\* The latest call has returned, after invoking its func
ReturnedAfterAttempts == Returned /\ InLatestCall /\ calls >= 1

\* C14: a backoff sleep is made only before a next attempt of the same func:
\* a call that made k attempts made exactly k - 1 sleeps; with NumRetries = n
\* and a func that always fails with a retryable error there are n sleeps,
\* of indices 0..n-1, and none between the last failed attempt and the
\* return of ErrExceededRetries.
C14_SleepsBetweenAttempts ==
    /\ ReturnedAfterAttempts => Len(sleeps) = calls - 1
    /\ (ReturnedAfterAttempts /\ ErrorsIs(HeldErr, ErrExceededRetries)) =>
           /\ Len(sleeps) = Policy.NumRetries
           /\ \A i \in 1..Len(sleeps) : sleeps[i] = i - 1

\* What the code does: a sleep follows every attempt that failed with a
\* retryable error, the last one too, so a call that ends in
\* ErrExceededRetries made as many sleeps as attempts
C14_SleepsAfterEveryFailure ==
    /\ ReturnedAfterAttempts => Len(sleeps) \in {calls - 1, calls}
    /\ (ReturnedAfterAttempts /\ ErrorsIs(HeldErr, ErrExceededRetries)) =>
           /\ calls = Policy.NumRetries + 1
           /\ Len(sleeps) = calls
           /\ \A i \in 1..Len(sleeps) : sleeps[i] = i - 1

\* The chain has slept after its last attempt and is about to give up
C14_SleptBeforeGivingUp ==
    /\ JustSlept
    /\ calls = Policy.NumRetries + 1
    /\ Len(sleeps) = calls
    /\ ~LoopRuns(c.retry, iter)

---------------------------------------------------------------------------
(* C15: success after retries.                                             *)

\* The func failed with a retryable error at its latest attempt, and the
\* policy leaves it a further attempt
FailedWithAttemptsLeft ==
    /\ InLatestCall
    /\ lastOut.kind = "err"
    /\ Policy.NumRetries >= 1
    /\ ~Forwarded(Policy, lastOut.err)
    /\ calls <= Policy.NumRetries

\* The func succeeded at its latest attempt
SucceededAtLatestAttempt == InLatestCall /\ lastOut.kind = "ok"

\* Every attempt of the call in hand got the args of the state the call was made on
SameArgsEveryAttempt ==
    (InLatestCall /\ calls >= 1) => inArgs = steps[Len(steps)].args

\* The outcome of a call whose func succeeded at attempt k = calls
SuccessReported ==
    (Returned /\ SucceededAtLatestAttempt) =>
        /\ HeldErr = NoErr
        /\ calls \in 1..(Policy.NumRetries + 1)
        /\ cur.op = "Then" => c.args = Apply(cur.f, inArgs)
        /\ cur.op = "Finally" => res.val = ApplyFinal(cur.f, inArgs)

\* C15: with NumRetries = n >= 1, a func that fails with retryable errors on
\* attempts 1..k-1 and succeeds on attempt k <= n+1 is invoked exactly k
\* times (after each of the failures the call goes on to a further attempt,
\* and the success ends it), every attempt receives the same args bundle of
\* the state, the call returns attempt k's result with no error, and the
\* errors of the earlier attempts are not reported.
C15_RetryThenSuccess ==
    /\ FailedWithAttemptsLeft => ~Returned
    /\ SameArgsEveryAttempt
    /\ SuccessReported

\* What the code keeps: the same, unless the backoff after a failure faults
C15_RetryThenSuccessUnlessSleepPanics ==
    /\ (FailedWithAttemptsLeft /\ Policy.BaseWait > 1) => ~Returned
    /\ (FailedWithAttemptsLeft /\ Returned) => ErrorsIs(HeldErr, ErrUnhandledPanic)
    /\ SameArgsEveryAttempt
    /\ SuccessReported

\* A func failed twice and succeeded at its third attempt
C15_ThirdAttemptSucceeded ==
    /\ pc = "idle"
    /\ SucceededAtLatestAttempt
    /\ calls = 3
    /\ sleeps = <<0, 1>>
    /\ c.err = NoErr
    /\ c.args = Apply(cur.f, inArgs)

---------------------------------------------------------------------------
(* C16: a cancel that lands inside a call.                                 *)

\* The call in hand is past its look at the context
InCall == pc \in {"attempt", "running", "sleep"}

\* What the call in hand holds once it has returned: the error, as Then or Finally wraps it
Reports(err) ==
    /\ Returned'
    /\ IF cur.op = "Then" THEN c'.err = ErrorIn(runtimeFuncName(cur.f), err)
       ELSE res'.err = ErrorIn(runtimeFuncName(cur.f), err)

\* One step of the call in hand, as the policy and the func alone decide it
C16_Step ==
    /\ pc = "attempt" =>
          IF iter <= Policy.NumRetries THEN pc' = "running" /\ calls' = calls + 1
          ELSE Reports(ErrExceededRetries)
    /\ (pc = "running" /\ lastOut'.kind = "ok") =>
          /\ Returned'
          /\ IF cur.op = "Then" THEN c'.err = NoErr ELSE res'.err = NoErr
    /\ (pc = "running" /\ lastOut'.kind = "panic") => Reports(PanicErr(PanicValue))
    /\ (pc = "running" /\ lastOut'.kind = "err") =>
          IF Policy.NumRetries = 0 \/ Forwarded(Policy, lastOut'.err)
          THEN Reports(lastOut'.err)
          ELSE pc' = "sleep"
    /\ pc = "sleep" =>
          IF Policy.BaseWait = 1 /\ attempt = 0
          THEN Reports(PanicErr(SleepPanicValue))
          ELSE /\ pc' = "attempt"
               /\ sleeps' = Append(sleeps, attempt)
               /\ DurLeq(Shl(Dur(Policy.BaseWait), attempt), slept')

\* C16: cancellation is observed once per Then/Finally call, immediately
\* before the first attempt.  When the context becomes done during an
\* attempt or a backoff sleep of a call, the sleep is not cut short, the
\* remaining attempts are still made, and the outcome of the call (success,
\* forwarded error, ErrExceededRetries) is what the policy and the func
\* make it, as without the cancel: every step of a call in hand is the same
\* whether the context is done or not, and a call that has invoked its func
\* never reports ErrContextDone; the next call does.
C16_CancelOnlyBetweenCalls ==
    [][/\ (InCall /\ pc' # pc) => C16_Step
       /\ (InCall /\ ctxDone' # ctxDone) => (pc' = pc /\ c' = c /\ calls' = calls /\ sleeps' = sleeps)
       /\ (Returned' /\ InLatestCall' /\ calls' >= 1) => ~ErrorsIs(HeldErr', ErrContextDone)
       /\ (IsCall /\ ctxDone /\ c.err = NoErr /\ cur'.f # NilFunc) =>
              /\ Returned'
              /\ ErrorsIs(HeldErr', ErrContextDone)
              /\ calls' = 0]_vars

\* The context became done during a backoff sleep of the latest call; the
\* call went on to its third attempt, which succeeded
C16_Witness ==
    /\ Returned
    /\ ctxDone
    /\ ~doneAtEnter
    /\ cancelPc = "sleep"
    /\ SucceededAtLatestAttempt
    /\ calls = 3
    /\ sleeps = <<0, 1>>
    /\ HeldErr = NoErr

---------------------------------------------------------------------------
(* C17: termination.  The fair specification: a func that was invoked      *)
(* returns or panics, a sleep ends, the loops of thenWrap/finallyWrap and   *)
(* of ProcessWithRetries go on to their next statement.  Nothing is asked  *)
(* of the caller who chains the calls itself, nor of the cancel.           *)

\* The program's own next statement; at most one of these is enabled in a state
Proceed ==
    \/ Invoke
    \/ Exhausted
    \/ \E out \in Outcomes : FuncReturns(out)
    \/ Sleep
    \/ ProcessStep

\* The chains of Init with one args bundle and one Forward, the least, a
\* middle and the greatest NumRetries, and funcs f1, f2 in this order
InitFair ==
    /\ Init
    /\ rawArgs = <<1>>
    /\ rawRetry.Forward = Slice(<<E1>>)
    /\ rawRetry.BaseWait \in {0, 1}
    /\ rawRetry.NumRetries \in {-1, 1, MaxRawRetries}
    /\ mode = "process" => fs \in {NilSlice, Slice(<<"f1">>), Slice(<<"f1", "f2">>)}

SpecFair ==
    /\ InitFair
    /\ [][Next]_vars
    /\ WF_vars(Proceed)

\* The invocations of one call, and the calls of one Process, are bounded
InvocationsBounded ==
    /\ calls <= 9
    /\ calls <= 1 + (IF rawRetry.NumRetries < 0 THEN 0 ELSE rawRetry.NumRetries)
    /\ Len(steps) <= Len(ops)
    /\ mode = "process" => Len(ops) <= Len(fs.elems) + 1

\* C17: provided every invocation of a func returns or panics, every Then
\* and Finally call terminates, having invoked its func at most
\* 1 + NumRetries <= 9 times whatever Retry value the caller supplied, and a
\* Process call over m steps terminates, after at most m + 1 calls and so at
\* most 9 * (m + 1) invocations.
C17_Terminates ==
    /\ []InvocationsBounded
    /\ []<>Returned
    /\ []<>(mode = "process" => pc = "done")

\* A call made from NumRetries = 9 returned after 9 invocations, and a Process
\* over two funcs ended after 3 calls
C17_Witness ==
    /\ rawRetry.NumRetries = MaxRawRetries
    /\ mode = "process"
    /\ Len(fs.elems) = 2
    /\ pc = "done"
    /\ Len(ops) = 3
    /\ calls = 9

---------------------------------------------------------------------------
(* C18: Finally against Then.                                              *)

\* The kind of an outcome
OutcomeKind(err) ==
    IF err = NoErr THEN "success"
    ELSE IF ErrorsIs(err, ErrExceededRetries) THEN "exceeded"
    ELSE IF ErrorsIs(err, ErrUnhandledPanic) THEN "panic"
    ELSE IF ErrorsIs(err, ErrContextDone) THEN "cancelled"
    ELSE IF ErrorsIs(err, ErrNilThenFunc) \/ ErrorsIs(err, ErrNilFinalFunc) THEN "nil func"
    ELSE "func error"

\* What thenWrap makes of a call on a state with policy retry whose k-th and
\* last attempt did out: the error err it hands back and the sleeps sl it made
ThenProtocol(retry, out, k, sl, err) ==
    /\ \A i \in 1..Len(sl) : sl[i] = i - 1
    /\ CASE out.kind = "ok" -> err = NoErr /\ Len(sl) = k - 1
         [] out.kind = "panic" -> err = PanicErr(PanicValue) /\ Len(sl) = k - 1
         [] out.kind = "err" /\ ReturnsError(retry, out.err) -> err = out.err /\ Len(sl) = k - 1
         [] out.kind = "err" /\ ~ReturnsError(retry, out.err) /\ SleepPanics(retry, k - 1) ->
                err = PanicErr(SleepPanicValue) /\ Len(sl) = k - 1
         [] OTHER -> err = ErrExceededRetries /\ Len(sl) = k /\ ~LoopRuns(retry, k)

\* The latest call, Then or Finally, having invoked its func, went as
\* thenWrap has it, and a Finally ended with the kind of outcome Then gives
FinallyAsThenWrap ==
    ReturnedAfterAttempts =>
        \E err \in {NoErr, PanicErr(PanicValue), PanicErr(SleepPanicValue), ErrExceededRetries,
                    lastOut.err} :
            /\ ThenProtocol(Policy, lastOut, calls, sleeps, err)
            /\ HeldErr = (IF err = NoErr THEN NoErr ELSE ErrorIn(runtimeFuncName(cur.f), err))
            /\ cur.op = "Finally" =>
                   OutcomeKind(res.err) = OutcomeKind(ThenResult(c, cur.f, <<>>, err).err)

\* A call of Finally goes on to its func exactly when Then would, and returns
\* at once with an outcome of the same kind when Then would
FinallyAsThenGuard ==
    (IsCall /\ cur'.op = "Finally") =>
        /\ (pc' = "done") = ThenGuard(c, cur'.f, ctxDone).ret
        /\ pc' = "done" =>
              /\ OutcomeKind(res'.err) = OutcomeKind(ThenGuard(c, cur'.f, ctxDone).chain.err)
              /\ calls' = 0
              /\ sleeps' = <<>>

\* C18: Finally applies to its func the guarded-invocation protocol Then
\* applies: for the same state, policy, outcomes of the attempts and
\* cancellation status it makes the same number of invocations and the same
\* sleeps, with the same indices, and ends with the same kind of outcome
\* (success, func error, exhausted retries, contained panic, cancellation).
C18_FinallyAsThen == []FinallyAsThenWrap /\ [][FinallyAsThenGuard]_vars

\* A Finally whose func failed once, slept with index 0, and then succeeded
C18_Witness ==
    /\ cur.op = "Finally"
    /\ pc = "done"
    /\ SucceededAtLatestAttempt
    /\ calls = 2
    /\ sleeps = <<0>>
    /\ res = [val |-> ApplyFinal(cur.f, inArgs), err |-> NoErr]

---------------------------------------------------------------------------
(* C19: the state a call is made on.  A third specification: the caller    *)
(* keeps the state it called Then on, and may end the chain on that state  *)
(* instead of on the one Then returned.                                    *)

\* receiver.Finally(g), with receiver the state the latest Then was called on
CallFinallyOnReceiver(g) ==
    /\ mode = "chain"
    /\ ops # <<>>
    /\ receiver # c
    /\ EnterOn(receiver, "Finally", g)

NextReuse ==
    \/ Next
    \/ \E g \in FinalInputs : CallFinallyOnReceiver(g)

SpecReuse == Init /\ [][NextReuse]_vars

\* One step, seen from the state the call in hand was made on
C19_Step ==
    /\ (InCall /\ InCall') => c' = c /\ receiver' = receiver
    /\ (pc = "attempt" /\ pc' = "running") => inArgs' = c.args
    /\ (InCall /\ cur.op = "Then" /\ pc' = "idle") =>
          /\ receiver' = c
          /\ c'.err = NoErr =>
                /\ c'.ctx = c.ctx
                /\ c'.retry = c.retry
                /\ c'.t = c.t
                /\ c'.args = Apply(cur.f, inArgs)
    /\ (InCall /\ cur.op = "Finally" /\ pc' = "done") => c' = c /\ receiver' = receiver
    /\ (IsCall /\ cur'.op = "Then" /\ c' = c) => receiver' \in {c, receiver}
    /\ (IsCall /\ cur'.op = "Then" /\ c' # c) => receiver' = c /\ pc' = "idle" /\ c'.err # NoErr
    /\ (IsCall /\ cur'.op = "Finally") => c' \in {c, receiver} /\ receiver' = receiver

\* C19: Then and Finally never modify the state they are called on: after
\* c.Then(f) or c.Finally(g), c still has its context, args, retry policy
\* and error, so a later c.Finally(g) runs g on c's args and not on f's
\* output; the state a successful Then returns differs from c in its args
\* only.
C19_ReceiverUnchanged ==
    /\ [][C19_Step]_vars
    /\ [](receiver.err = NoErr =>
            /\ receiver.ctx = Ctx
            /\ receiver.retry = Policy
            /\ receiver.t = Zero)
    /\ [](ops = <<>> => receiver = c)

\* The caller made c.Then(f1), which succeeded, and then c.Finally(g1): g1 ran
\* on c's args, the ones f1 had been given, and not on f1's output
C19_Witness ==
    /\ pc = "done"
    /\ Len(steps) = 2
    /\ steps[1].op = "Then"
    /\ steps[2] = [op |-> "Finally", f |-> "g1", args |-> steps[1].args]
    /\ Apply(steps[1].f, steps[1].args) # steps[1].args
    /\ receiver.args = steps[1].args
    /\ c = receiver
    /\ res = [val |-> ApplyFinal("g1", steps[1].args), err |-> NoErr]

---------------------------------------------------------------------------
(* C20: the order of the checks.                                           *)

\* The error a nil func gets
NilFuncErr(op) == IF op = "Then" THEN ErrNilThenFunc ELSE ErrNilFinalFunc

\* A call of Then or Finally, up to the point where it returns or goes on to its func
C20_Step ==
    IsCall =>
        /\ ~escaped' /\ pc' # "crashed"
        /\ IF c.err # NoErr
           THEN Returned' /\ HeldErr' = c.err /\ c' = c /\ calls' = 0 /\ steps' = steps
           ELSE IF cur'.f = NilFunc
           THEN Returned' /\ HeldErr' = NilFuncErr(cur'.op) /\ calls' = 0
           ELSE IF ctxDone
           THEN Returned' /\ HeldErr' = PriorTo(runtimeFuncName(cur'.f)) /\ calls' = 0
           ELSE pc' = "attempt" /\ c' = c

\* C20: Then and Finally decide their outcome in a fixed order: an existing
\* terminal error first, then the nil-func check, then the cancellation
\* check, then the func's outcome.  On an error-free state whose context is
\* already done Then(nil) yields ErrNilThenFunc and Finally(nil) yields
\* ErrNilFinalFunc, not ErrContextDone; on a state with a terminal error
\* neither the func nor the context is looked at, and the nil context such
\* a state holds is never dereferenced.
C20_Precedence ==
    /\ [][C20_Step]_vars
    /\ [](c.err # NoErr => c.ctx = NilCtx)

\* Finally(nil) was called with the context already done: ErrNilFinalFunc
C20_Witness ==
    /\ pc = "done"
    /\ doneAtEnter
    /\ cur = [op |-> "Finally", f |-> NilFunc]
    /\ c.err = NoErr
    /\ res = [val |-> Zero, err |-> ErrNilFinalFunc]

\* Then(f1) was called on an errored state, whose context is nil, with the
\* caller's context done: the state came back as it was
C20_WitnessErrored ==
    /\ pc = "idle"
    /\ doneAtEnter
    /\ Len(ops) = 2
    /\ cur = [op |-> "Then", f |-> "f1"]
    /\ c.ctx = NilCtx
    /\ c.err = ErrNilThenFunc
    /\ ~escaped

=============================================================================
